---- MODULE Spec2Model ----
(***************************************************************************)
(* A model of src/evaluator.py: OptimizedAnswerEvaluator.evaluate_answer   *)
(* and its helpers _get_weights, _generate_remarks, _generate_suggestions. *)
(*                                                                         *)
(* Representation.                                                         *)
(*  - A Python str that the code lower-cases or searches (difficulty,      *)
(*    context) is a sequence of one-character strings.                     *)
(*  - A Python dict is a function whose DOMAIN is its key set; d.get(k, x) *)
(*    is Get(d, k, x) and d[k] raises KeyError when k is not a key.        *)
(*  - A JSON value is a record tagged with its Python type (t), so that    *)
(*    "has no attribute get" can be decided.                               *)
(*  - The Assessor's reply is a sequence of lexical tokens (fence, white   *)
(*    space, prose, one JSON document).                                    *)
(*  - A float is the exact rational it approximates, <<num, den>>.         *)
(*    round(x, n) yields the nearest n-decimal value; where x lies exactly *)
(*    half way in exact arithmetic, the binary float may fall on either    *)
(*    side, so both neighbours are possible outcomes.                      *)
(*  - A formatted output string is the sequence of its pieces.             *)
(***************************************************************************)
EXTENDS Integers, Sequences, FiniteSets, TLC

VARIABLES callee, args, pc, ret, error

vars == <<callee, args, pc, ret, error>>

\* ------------------------------------------------------------------ bounds

\* Longest context, in words of CtxWords, that the weight selector is given.
MaxCtxWords == 2

\* Largest max_score a question carries.
MaxMaxScore == 3

\* Longest concepts_missed / improve / errors list handed to the generators.
MaxListLen == 3

\* ------------------------------------------------------------ Python dicts

\* dict.get(key, default)
Get(d, k, default) == IF k \in DOMAIN d THEN d[k] ELSE default

\* key in dict
Has(d, k) == k \in DOMAIN d

\* the dict without one key
Without(d, k) == [x \in (DOMAIN d) \ {k} |-> d[x]]

\* dict.update(other)
Update(d, other) == [x \in (DOMAIN d) \cup (DOMAIN other) |->
                        IF x \in DOMAIN other THEN other[x] ELSE d[x]]

\* ---------------------------------------------------------- Python strings

UpperAlpha == <<"A","B","C","D","E","F","G","H","I","J","K","L","M",
               "N","O","P","Q","R","S","T","U","V","W","X","Y","Z">>

LowerAlpha == <<"a","b","c","d","e","f","g","h","i","j","k","l","m",
               "n","o","p","q","r","s","t","u","v","w","x","y","z">>

LowerChar(c) ==
    IF \E i \in 1..Len(UpperAlpha) : UpperAlpha[i] = c
    THEN LowerAlpha[CHOOSE i \in 1..Len(UpperAlpha) : UpperAlpha[i] = c]
    ELSE c

\* str.lower()
Lower(s) == [i \in 1..Len(s) |-> LowerChar(s[i])]

\* needle in haystack (substring search)
Contains(hay, needle) ==
    \E i \in 0..(Len(hay) - Len(needle)) :
        \A j \in 1..Len(needle) : hay[i + j] = needle[j]

sEasy == <<"e","a","s","y">>
sHard == <<"h","a","r","d">>
sMedium == <<"M","e","d","i","u","m">>
sComprehension == <<"c","o","m","p","r","e","h","e","n","s","i","o","n">>
sReading == <<"r","e","a","d","i","n","g">>
sSpelling == <<"s","p","e","l","l","i","n","g">>
sGrammar == <<"g","r","a","m","m","a","r">>

\* --------------------------------------------------------- _get_weights

DefaultWeights == [intent |-> 40, vocabulary |-> 25, spelling |-> 15, grammar |-> 20]

EasyWeights == [spelling |-> 20, grammar |-> 25, vocabulary |-> 20, intent |-> 35]

HardWeights == [intent |-> 50, vocabulary |-> 25, spelling |-> 10, grammar |-> 15]

ComprehensionWeights == [intent |-> 50, vocabulary |-> 25, spelling |-> 10, grammar |-> 15]

SpellingContextWeights == [spelling |-> 35, intent |-> 30]

GrammarContextWeights == [grammar |-> 35, intent |-> 30]

\* Adjust by difficulty (the argument is already lower-cased).
AdjustByDifficulty(weights, difficulty) ==
    IF difficulty = sEasy THEN Update(weights, EasyWeights)
    ELSE IF difficulty = sHard THEN Update(weights, HardWeights)
    ELSE weights

\* A slip that tests every context rule with "if" instead of "elif".
AdjustByContextAll(weights, context) ==
    LET w1 == IF Contains(context, sComprehension) \/ Contains(context, sReading)
              THEN Update(weights, ComprehensionWeights) ELSE weights
        w2 == IF Contains(context, sSpelling)
              THEN Update(w1, SpellingContextWeights) ELSE w1
    IN  IF Contains(context, sGrammar)
        THEN Update(w2, GrammarContextWeights) ELSE w2

\* Adjust by context (the argument is already lower-cased).
AdjustByContext(weights, context) ==
    IF Contains(context, sComprehension) \/ Contains(context, sReading)
    THEN Update(weights, ComprehensionWeights)
    ELSE IF Contains(context, sSpelling)
    THEN Update(weights, SpellingContextWeights)
    ELSE IF Contains(context, sGrammar)
    THEN Update(weights, GrammarContextWeights)
    ELSE weights

GetWeights(difficulty, context) ==
    AdjustByContext(AdjustByDifficulty(DefaultWeights, Lower(difficulty)),
                    Lower(context))

\* ------------------------------------------------------------- call frame

\* No value yet (the call has not returned, or it raised).
NoValue == [none |-> TRUE]

\* The call returns value v.
Return(v) ==
    /\ pc' = "returned"
    /\ ret' = v
    /\ error' = ""
    /\ UNCHANGED <<callee, args>>

\* The call raises exception e, which propagates to the caller.
Raise(e) ==
    /\ pc' = "raised"
    /\ ret' = NoValue
    /\ error' = e
    /\ UNCHANGED <<callee, args>>

\* A call of function f with arguments a, about to run.
Called(f, a) ==
    /\ callee = f
    /\ args = a
    /\ pc = "called"
    /\ ret = NoValue
    /\ error = ""

\* ------------------------------------------- inputs of the weight selector

sPractice == <<" ","p","r","a","c","t","i","c","e">>
sSpell == <<"s","p","e","l","l">>
sMath == <<"m","a","t","h">>
sReadingCap == <<"R","e","a","d","i","n","g">>
sSpellingUp == <<"S","P","E","L","L","I","N","G">>
sGrammarCap == <<"G","r","a","m","m","a","r">>
sEasyCap == <<"E","a","s","y">>
sEasyUp == <<"E","A","S","Y">>
sHardCap == <<"H","a","r","d">>
sEasier == <<"e","a","s","i","e","r">>
sEmpty == <<>>

\* The words contexts are made of, each with the context rule it triggers.
CtxWords == <<
    [text |-> sComprehension, rule |-> "comprehension"],
    [text |-> sReadingCap,    rule |-> "reading"],
    [text |-> sSpelling,      rule |-> "spelling"],
    [text |-> sSpellingUp,    rule |-> "spelling"],
    [text |-> sGrammarCap,    rule |-> "grammar"],
    [text |-> sPractice,      rule |-> "none"],
    [text |-> sSpell,         rule |-> "none"],
    [text |-> sMath,          rule |-> "none"] >>

\* The difficulty labels, each with the level it stands for.
DifficultyTable == {
    [text |-> sEasy,    level |-> "easy"],
    [text |-> sEasyCap, level |-> "easy"],
    [text |-> sEasyUp,  level |-> "easy"],
    [text |-> sHard,    level |-> "hard"],
    [text |-> sHardCap, level |-> "hard"],
    [text |-> sMedium,  level |-> "other"],
    [text |-> sEasier,  level |-> "other"],
    [text |-> sEmpty,   level |-> "other"] }

WordSeqs == UNION { [1..n -> 1..Len(CtxWords)] : n \in 0..MaxCtxWords }

RECURSIVE ConcatWords(_)
ConcatWords(ws) ==
    IF ws = <<>> THEN <<>>
    ELSE CtxWords[Head(ws)].text \o ConcatWords(Tail(ws))

\* Every context of at most MaxCtxWords words, with the rules its words trigger.
ContextTable ==
    { [text |-> ConcatWords(ws),
       rules |-> { CtxWords[ws[i]].rule : i \in 1..Len(ws) }] : ws \in WordSeqs }

InitWeights ==
    \E d \in DifficultyTable, c \in ContextTable :
        Called("_get_weights", [difficulty |-> d.text, context |-> c.text])

\* _get_weights(difficulty, context) runs and returns.
GetWeightsCall ==
    /\ pc = "called"
    /\ callee = "_get_weights"
    /\ Return(GetWeights(args.difficulty, args.context))

NextWeights == GetWeightsCall

SpecWeights == InitWeights /\ [][NextWeights]_vars

\* ------------------------------------------------------------------ C4

\* The reference table of the weight selector, by level and triggered rules.
RefBase(level) ==
    CASE level = "easy" -> [intent |-> 35, vocabulary |-> 20, spelling |-> 20, grammar |-> 25]
      [] level = "hard" -> [intent |-> 50, vocabulary |-> 25, spelling |-> 10, grammar |-> 15]
      [] OTHER          -> [intent |-> 40, vocabulary |-> 25, spelling |-> 15, grammar |-> 20]

RefWeights(level, rules) ==
    IF "comprehension" \in rules \/ "reading" \in rules
    THEN [intent |-> 50, vocabulary |-> 25, spelling |-> 10, grammar |-> 15]
    ELSE IF "spelling" \in rules
    THEN [RefBase(level) EXCEPT !.spelling = 35, !.intent = 30]
    ELSE IF "grammar" \in rules
    THEN [RefBase(level) EXCEPT !.grammar = 35, !.intent = 30]
    ELSE RefBase(level)

\* C4: _get_weights(difficulty, context) equals the reference table: the base
\* or the easy/hard weights by the case-insensitive difficulty, then exactly
\* the first matching context rule in the order comprehension-or-reading,
\* spelling, grammar; "easy" with "spelling practice" gives 30/20/35/25.
C4_WeightsMatchTable ==
    (callee = "_get_weights" /\ pc = "returned") =>
        /\ \A d \in DifficultyTable, c \in ContextTable :
              (d.text = args.difficulty /\ c.text = args.context)
                  => ret = RefWeights(d.level, c.rules)
        /\ (args.difficulty = sEasy /\ args.context = sSpelling \o sPractice)
              => ret = [intent |-> 30, vocabulary |-> 20, spelling |-> 35, grammar |-> 25]

\* A returned call whose context matches the spelling and the grammar rule
\* and whose difficulty is written in upper case.
C4_Witness ==
    /\ callee = "_get_weights"
    /\ pc = "returned"
    /\ args.difficulty = sEasyUp
    /\ args.context = sGrammarCap \o sSpellingUp
    /\ ret.spelling = 35
    /\ ret.grammar = 25

\* ------------------------------------------------------- the Assessor reply

\* Lexical tokens of response.content.
Fence == [k |-> "fence"]
Ws == [k |-> "ws"]
Text(s) == [k |-> "text", s |-> s]
Doc(v) == [k |-> "json", v |-> v]

\* JSON values as json.loads returns them, tagged with their Python type.
JDict(d) == [t |-> "dict", v |-> d]
JInt(n) == [t |-> "int", n |-> n]
JList(l) == [t |-> "list", l |-> l]
JStr(x) == [t |-> "str", s |-> x]
JNone == [t |-> "NoneType"]

EmptyDict == [x \in {} |-> 0]

RECURSIVE LStrip(_)
LStrip(c) == IF c # <<>> /\ Head(c).k = "ws" THEN LStrip(Tail(c)) ELSE c

RECURSIVE RStrip(_)
RStrip(c) ==
    IF c # <<>> /\ c[Len(c)].k = "ws" THEN RStrip(SubSeq(c, 1, Len(c) - 1)) ELSE c

\* str.strip()
Strip(c) == RStrip(LStrip(c))

\* content.startswith("```")
StartsWithFence(c) == c # <<>> /\ Head(c).k = "fence"

\* content.startswith("json")
StartsWithJson(c) == c # <<>> /\ Head(c).k = "text" /\ Head(c).s = "json"

\* content.split("```"): the segments between the fences
RECURSIVE SplitFence(_)
SplitFence(c) ==
    IF \E i \in 1..Len(c) : c[i].k = "fence"
    THEN LET i == CHOOSE n \in 1..Len(c) :
                      /\ c[n].k = "fence"
                      /\ \A m \in 1..(n - 1) : c[m].k # "fence"
         IN  <<SubSeq(c, 1, i - 1)>> \o SplitFence(SubSeq(c, i + 1, Len(c)))
    ELSE <<c>>

\* Clean up response (remove markdown code blocks if present).
CleanContent(content) ==
    LET c0 == Strip(content)
    IN  IF StartsWithFence(c0)
        THEN LET c1 == SplitFence(c0)[2]
                 c2 == IF StartsWithJson(c1) THEN Tail(c1) ELSE c1
             IN  Strip(c2)
        ELSE c0

\* json.loads(content): one JSON document, white space around it allowed;
\* anything else is a JSONDecodeError.
JsonLoads(content) ==
    LET c == Strip(content)
    IN  IF Len(c) = 1 /\ c[1].k = "json"
        THEN [ok |-> TRUE, value |-> c[1].v]
        ELSE [ok |-> FALSE, value |-> JNone]

Dimensions == <<"intent", "vocabulary", "spelling", "grammar">>

\* Fallback if JSON parsing fails.
FallbackResult ==
    [intent |-> JDict([score |-> 50, understood |-> TRUE, concepts_right |-> <<>>,
                       concepts_missed |-> <<>>, note |-> "Parse error"]),
     vocabulary |-> JDict([score |-> 50, good_words |-> <<>>, improve |-> <<>>,
                           note |-> "Parse error"]),
     spelling |-> JDict([score |-> 50, errors |-> <<>>, phonetic_tries |-> <<>>,
                         note |-> "Parse error"]),
     grammar |-> JDict([score |-> 50, errors |-> <<>>, strengths |-> <<>>,
                        note |-> "Parse error"])]

FallbackScores == [intent |-> 50, vocabulary |-> 50, spelling |-> 50, grammar |-> 50]

NoScores == [intent |-> 0, vocabulary |-> 0, spelling |-> 0, grammar |-> 0]

\* result.get(dim, {}).get("score", 0); the dimension is a dict here.
ExtractScore(result, dim) == Get(Get(result, dim, JDict(EmptyDict)).v, "score", 0)

\* The try block: clean the content, json.loads it, extract the four scores.
\* A JSONDecodeError is caught and gives the fallback; calling .get on a
\* value that is not a dict raises AttributeError, which is not caught.
ParseResponse(content) ==
    LET loaded == JsonLoads(CleanContent(content))
    IN  IF ~loaded.ok
        THEN [error |-> "", result |-> FallbackResult, scores |-> FallbackScores]
        ELSE IF loaded.value.t # "dict"
        THEN [error |-> "AttributeError", result |-> EmptyDict, scores |-> NoScores]
        ELSE IF \E i \in 1..4 : /\ Has(loaded.value.v, Dimensions[i])
                                /\ loaded.value.v[Dimensions[i]].t # "dict"
        THEN [error |-> "AttributeError", result |-> EmptyDict, scores |-> NoScores]
        ELSE [error |-> "",
              result |-> loaded.value.v,
              scores |-> [d \in {"intent", "vocabulary", "spelling", "grammar"} |->
                             ExtractScore(loaded.value.v, d)]]

\* ------------------------------------------------------------------ floats

\* The quotient a / b of two rationals (b is not zero); the denominator
\* of the result is positive.
RatDiv(a, b) ==
    IF b[1] < 0 THEN <<-(a[1] * b[2]), -(a[2] * b[1])>>
    ELSE <<a[1] * b[2], a[2] * b[1]>>

RatMul(a, b) == <<a[1] * b[1], a[2] * b[2]>>

Rat(n) == <<n, 1>>

Pow10(n) == IF n = 0 THEN 1 ELSE IF n = 1 THEN 10 ELSE 100

\* round(x, ndigits), in units of 10^-ndigits: the nearest value; both
\* neighbours where x is exactly half way between them.
Round(x, ndigits) ==
    LET n == x[1] * Pow10(ndigits)
        q == (2 * n + x[2]) \div (2 * x[2])
    IN  IF (2 * n + x[2]) % (2 * x[2]) = 0 THEN {q - 1, q} ELSE {q}

\* x >= n for a float x: decided by the exact value, either way when the
\* exact value is n itself and the float carries a rounding error.
GreaterEq(x, n) ==
    IF x[1] = n * x[2] THEN {TRUE, FALSE} ELSE {x[1] > n * x[2]}

\* ------------------------------------------------------- output strings

\* list[:n]
Take(l, n) == SubSeq(l, 1, IF Len(l) < n THEN Len(l) ELSE n)

\* sep.join(parts), each part a sequence of pieces
RECURSIVE Join(_, _)
Join(parts, sep) ==
    IF parts = <<>> THEN <<>>
    ELSE IF Len(parts) = 1 THEN parts[1]
    ELSE parts[1] \o <<sep>> \o Join(Tail(parts), sep)

\* The one-piece strings of a list of str.
Pieces(l) == [i \in 1..Len(l) |-> <<l[i]>>]

\* ------------------------------------------------------ _generate_remarks

\* The tone sentence for a percentage.
Tones(percentage) ==
    { IF ge90 THEN "Excellent work!"
      ELSE IF ge75 THEN "Great job!"
      ELSE IF ge60 THEN "Good effort!"
      ELSE IF ge40 THEN "Nice try!"
      ELSE "Keep practicing!" :
        ge90 \in GreaterEq(percentage, 90), ge75 \in GreaterEq(percentage, 75),
        ge60 \in GreaterEq(percentage, 60), ge40 \in GreaterEq(percentage, 40) }

\* result["intent"].get("understood"), as a truth value (absent is None).
UnderstoodForRemarks(intent) == Has(intent, "understood") /\ intent["understood"]

\* The remarks for one tone; result holds the intent and spelling dimensions.
RemarksFor(tone, result) ==
    LET r1 == <<<<tone>>>>
        r2 == IF UnderstoodForRemarks(result["intent"].v)
              THEN Append(r1, <<"You understood the main idea.">>) ELSE r1
        r3 == IF Get(result["spelling"].v, "phonetic_tries", <<>>) # <<>>
              THEN Append(r2, <<"Good phonetic spelling attempts!">>) ELSE r2
    IN  Join(r3, " ")

\* _generate_remarks(percentage, result): the strings it can return.
GenerateRemarks(percentage, result) ==
    { RemarksFor(tone, result) : tone \in Tones(percentage) }

\* -------------------------------------------------- _generate_suggestions

\* A slip that joins every fragment, without the [:3] cap.
KeepFragmentsAll(suggestions) == suggestions

\* suggestions[:3]
KeepFragments(suggestions) == Take(suggestions, 3)

\* _generate_suggestions(result); result holds the four dimensions.
\* The arrow of the spelling fragment is written "->".
GenerateSuggestions(result) ==
    LET missed == Get(result["intent"].v, "concepts_missed", <<>>)
        s1 == IF missed # <<>>
              THEN << <<"Include: ">> \o Join(Pieces(Take(missed, 2)), ", ") >>
              ELSE <<>>
        improve == Get(result["vocabulary"].v, "improve", <<>>)
        s2 == IF improve # <<>>
              THEN Append(s1, <<"Word tip: ", improve[1]>>) ELSE s1
        errors == Get(result["spelling"].v, "errors", <<>>)
        s3 == IF errors # <<>>
              THEN Append(s2, <<"Spelling: '", Get(errors[1], "word", "None"),
                                "' -> '", Get(errors[1], "correct", "None"), "'">>)
              ELSE s2
        grammar_errors == Get(result["grammar"].v, "errors", <<>>)
        s4 == IF grammar_errors # <<>>
              THEN Append(s3, <<"Grammar: ",
                                Get(grammar_errors[1], "fix", "Check structure")>>)
              ELSE s3
    IN  IF s4 # <<>> THEN Join(KeepFragments(s4), " | ")
        ELSE <<"Keep up the good work!">>

\* --------------------------------------------------------- evaluate_answer

\* Calculate weighted average (0-100 scale).
WeightedAvg(scores, weights) ==
    RatDiv(Rat(scores["intent"] * weights["intent"]
               + scores["vocabulary"] * weights["vocabulary"]
               + scores["spelling"] * weights["spelling"]
               + scores["grammar"] * weights["grammar"]), Rat(100))

\* Scale to max_score.
FinalScore(weighted_avg, max_score) ==
    RatMul(RatDiv(weighted_avg, Rat(100)), Rat(max_score))

\* A slip that rounds a partial score to one decimal (in hundredths).
PartialScoreOneDecimal(score, weight, max_score) ==
    { 10 * r : r \in Round(RatMul(RatMul(RatDiv(Rat(score), Rat(100)),
                                         RatDiv(Rat(weight), Rat(100))),
                                  Rat(max_score)), 1) }

\* round((score / 100) * (weight / 100) * max_score, 2), in hundredths
PartialScore(score, weight, max_score) ==
    Round(RatMul(RatMul(RatDiv(Rat(score), Rat(100)), RatDiv(Rat(weight), Rat(100))),
                 Rat(max_score)), 2)

\* A slip that takes the percentage of the 2-decimal final score.
PercentageOfRounded(final_score, max_score) ==
    RatMul(RatDiv(<<CHOOSE r \in Round(final_score, 2) : TRUE, 100>>, Rat(max_score)),
           Rat(100))

\* percentage = (final_score / max_score) * 100; max_score is not zero.
Percentage(final_score, max_score) ==
    RatMul(RatDiv(final_score, Rat(max_score)), Rat(100))

\* The dimensions that line 191 onwards reads with result[...].
MissingDimension(result) == \E i \in 1..4 : ~Has(result, Dimensions[i])

\* The returned dict. final_score and the partial scores are in hundredths,
\* percentage is in tenths.
EvaluationSummary(question_id, final_score, max_score, percentage, partial_scores, scores, result, remarks, suggestions) ==
    [question_id |-> question_id,
     final_score |-> final_score,
     max_score |-> max_score,
     percentage |-> percentage,
     partial_scores |-> partial_scores,
     intent_analysis |->
        [intent_match_score |-> scores["intent"],
         understood_concept |-> Get(result["intent"].v, "understood", TRUE),
         key_concepts_identified |-> Get(result["intent"].v, "concepts_right", <<>>),
         key_concepts_missed |-> Get(result["intent"].v, "concepts_missed", <<>>),
         reasoning |-> Get(result["intent"].v, "note", "")],
     vocabulary_analysis |->
        [vocabulary_score |-> scores["vocabulary"],
         appropriate_words |-> Get(result["vocabulary"].v, "good_words", <<>>),
         suggested_improvements |-> Get(result["vocabulary"].v, "improve", <<>>),
         reasoning |-> Get(result["vocabulary"].v, "note", "")],
     spelling_analysis |->
        [spelling_score |-> scores["spelling"],
         misspelled_words |-> Get(result["spelling"].v, "errors", <<>>),
         phonetic_attempts |-> Get(result["spelling"].v, "phonetic_tries", <<>>),
         reasoning |-> Get(result["spelling"].v, "note", "")],
     grammar_analysis |->
        [grammar_score |-> scores["grammar"],
         errors |-> Get(result["grammar"].v, "errors", <<>>),
         strengths |-> Get(result["grammar"].v, "strengths", <<>>),
         reasoning |-> Get(result["grammar"].v, "note", "")],
     remarks |-> remarks,
     suggestions |-> suggestions]

\* evaluate_answer(question_data, student_answer) runs to its return or to
\* the exception it lets through. args.llm is what self.llm.invoke gives:
\* a response with its content, or a provider failure.
EvaluateAnswer ==
    /\ pc = "called"
    /\ callee = "evaluate_answer"
    /\ LET question_data == args.question_data
           question_id == Get(question_data, "question_id", "")
           context == Get(question_data, "context", sEmpty)
           difficulty == Get(question_data, "difficulty", sMedium)
           max_score == Get(question_data, "max_score", 1)
           parsed == ParseResponse(args.llm.content)
           scores == parsed.scores
           result == parsed.result
           weights == GetWeights(difficulty, context)
           weighted_avg == WeightedAvg(scores, weights)
           final_score == FinalScore(weighted_avg, max_score)
           percentage == Percentage(final_score, max_score)
       IN  IF ~args.llm.ok THEN Raise("ProviderError")
           ELSE IF parsed.error # "" THEN Raise(parsed.error)
           ELSE IF max_score = 0 THEN Raise("ZeroDivisionError")
           ELSE IF MissingDimension(result) THEN Raise("KeyError")
           ELSE \E p_intent \in PartialScore(scores["intent"], weights["intent"], max_score),
                   p_vocabulary \in PartialScore(scores["vocabulary"], weights["vocabulary"], max_score),
                   p_spelling \in PartialScore(scores["spelling"], weights["spelling"], max_score),
                   p_grammar \in PartialScore(scores["grammar"], weights["grammar"], max_score),
                   remarks \in GenerateRemarks(percentage, result),
                   r_final \in Round(final_score, 2),
                   r_percentage \in Round(percentage, 1) :
                Return(EvaluationSummary(
                    question_id, r_final, max_score, r_percentage,
                    [intent |-> p_intent, vocabulary |-> p_vocabulary,
                     spelling |-> p_spelling, grammar |-> p_grammar],
                    scores, result, remarks, GenerateSuggestions(result)))

Next == EvaluateAnswer

\* ------------------------------------------- inputs of evaluate_answer

IntentFull ==
    [score |-> 80, understood |-> TRUE, concepts_right |-> <<"water cycle">>,
     concepts_missed |-> <<"evaporation", "condensation", "rain">>,
     note |-> "mostly right"]

VocabularyFull ==
    [score |-> 70, good_words |-> <<"cloud">>, improve |-> <<"say evaporate">>,
     note |-> "simple words"]

SpellingFull ==
    [score |-> 60,
     errors |-> <<[word |-> "becaus", correct |-> "because", type |-> "phonetic"]>>,
     phonetic_tries |-> <<"becaus">>, note |-> "one error"]

GrammarFull ==
    [score |-> 90, errors |-> <<[type |-> "tense", fix |-> "went"]>>,
     strengths |-> <<"full sentence">>, note |-> "good"]

FullDimension(d) ==
    CASE d = "intent" -> IntentFull
      [] d = "vocabulary" -> VocabularyFull
      [] d = "spelling" -> SpellingFull
      [] d = "grammar" -> GrammarFull

\* The shapes one dimension of the Assessor's JSON object takes.
DimensionShapes(d) ==
    {"full", "absent", "int", "empty"}
        \cup (IF d = "intent" THEN {"not_understood", "no_flag", "high"} ELSE {})
        \cup (IF d = "spelling" THEN {"negative"} ELSE {})

ShapedDimension(d, shape) ==
    CASE shape = "full" -> JDict(FullDimension(d))
      [] shape = "int" -> JInt(5)
      [] shape = "empty" -> JDict(EmptyDict)
      [] shape = "not_understood" -> JDict([IntentFull EXCEPT !.understood = FALSE])
      [] shape = "no_flag" -> JDict(Without(IntentFull, "understood"))
      [] shape = "high" -> JDict([IntentFull EXCEPT !.score = 150])
      [] shape = "negative" -> JDict([SpellingFull EXCEPT !.score = -10])

DimensionSet == {"intent", "vocabulary", "spelling", "grammar"}

\* JSON objects whose dimensions are whole, empty, absent or not objects.
ShapedJudgments ==
    { JDict([d \in {x \in DimensionSet : c[x] # "absent"} |-> ShapedDimension(d, c[d])]) :
        c \in { f \in [DimensionSet -> {"full", "absent", "int", "empty", "not_understood",
                                        "no_flag", "high", "negative"}] :
                    \A d \in DimensionSet : f[d] \in DimensionShapes(d) } }

FullJudgment == [d \in DimensionSet |-> JDict(FullDimension(d))]

\* The full judgment with one field of one dimension left out.
FieldlessJudgments ==
    { JDict([FullJudgment EXCEPT ![d] = JDict(Without(FullDimension(d), f))]) :
        d \in DimensionSet, f \in {"score", "note", "concepts_missed", "concepts_right",
                                   "good_words", "improve", "errors", "phonetic_tries",
                                   "strengths"} }

\* JSON documents that are not objects.
NonObjects == {JList(<<>>), JInt(7), JStr("good answer"), JNone}

Wrap(n, body) ==
    CASE n = 1 -> body
      [] n = 2 -> <<Ws>> \o body \o <<Ws>>
      [] n = 3 -> <<Fence, Text("json"), Ws>> \o body \o <<Ws, Fence>>
      [] n = 4 -> <<Fence, Ws>> \o body \o <<Ws, Fence>>
      [] n = 5 -> <<Text("Here is the evaluation:"), Ws, Fence, Text("json"), Ws>>
                      \o body \o <<Fence>>
      [] n = 6 -> <<Fence, Text("JSON"), Ws>> \o body \o <<Ws, Fence>>
      [] n = 7 -> <<Fence, Text("json")>> \o body
      [] n = 8 -> <<Ws, Fence, Text("json")>> \o body \o <<Fence, Ws>>

\* The contents the Assessor replies with.
Contents ==
    { Wrap(n, body) : n \in 1..8,
                      body \in {<<>>, <<Text("I think the answer is good.")>>,
                                <<Doc(JDict(FullJudgment))>>,
                                <<Doc(JDict(FullJudgment)), Ws, Text("Hope this helps.")>>,
                                <<Doc(JList(<<>>))>>} }
    \cup { Wrap(n, <<Doc(j)>>) : n \in {1, 3},
                                j \in ShapedJudgments \cup FieldlessJudgments \cup NonObjects }

Replies == { [ok |-> TRUE, content |-> c] : c \in Contents }
               \cup { [ok |-> FALSE, content |-> <<>>] }

MaxScores == (-1)..MaxMaxScore

\* Questions with and without difficulty, context and max_score.
Questions ==
    { [question_id |-> "q1"] } \cup
    { [question_id |-> "q1", max_score |-> m] : m \in MaxScores } \cup
    { [question_id |-> "q1", difficulty |-> sEasy, context |-> sSpelling \o sPractice,
       max_score |-> m] : m \in MaxScores }

Init ==
    \E q \in Questions, r \in Replies :
        Called("evaluate_answer", [question_data |-> q, llm |-> r])

Spec == Init /\ [][Next]_vars

\* Scores the Assessor gives in the numeric runs.
ScoreValues == {0, 25, 33, 77, 100}

ScoreDifficulties == {sEasyCap, sHard, sMedium}

ScoreContexts == {sEmpty, sSpelling \o sPractice, sGrammarCap, sReadingCap}

ScoreQuestions ==
    { [question_id |-> "q1", difficulty |-> d, context |-> c] :
        d \in ScoreDifficulties, c \in ScoreContexts } \cup
    { [question_id |-> "q1", difficulty |-> d, context |-> c, max_score |-> m] :
        d \in ScoreDifficulties, c \in ScoreContexts, m \in MaxScores }

ScoreJudgments ==
    { JDict([d \in DimensionSet |-> JDict([score |-> sc[d]])]) :
        sc \in [DimensionSet -> ScoreValues] }

InitScore ==
    \E q \in ScoreQuestions, j \in ScoreJudgments :
        Called("evaluate_answer",
               [question_data |-> q, llm |-> [ok |-> TRUE, content |-> <<Doc(j)>>]])

SpecScore == InitScore /\ [][Next]_vars

\* ----------------------------------------------- claims on evaluate_answer

\* evaluate_answer has run, to a return or to an exception.
Evaluated == callee = "evaluate_answer" /\ pc # "called"

\* evaluate_answer has returned its dict.
Returned == callee = "evaluate_answer" /\ pc = "returned"

\* The max_score the question carries (1 when it carries none).
GivenMaxScore == Get(args.question_data, "max_score", 1)

\* What json.loads made of the Assessor's content.
Loaded == JsonLoads(CleanContent(args.llm.content))

\* The content is one JSON object whose dimensions, where present, are objects.
IsJudgmentObject ==
    /\ Loaded.ok
    /\ Loaded.value.t = "dict"
    /\ \A d \in DimensionSet : Has(Loaded.value.v, d) => Loaded.value.v[d].t = "dict"

\* The content is one JSON object with the four dimensions, each an object.
IsWholeJudgment ==
    /\ IsJudgmentObject
    /\ \A d \in DimensionSet : Has(Loaded.value.v, d)

ReportedScores ==
    [intent |-> ret.intent_analysis.intent_match_score,
     vocabulary |-> ret.vocabulary_analysis.vocabulary_score,
     spelling |-> ret.spelling_analysis.spelling_score,
     grammar |-> ret.grammar_analysis.grammar_score]

ReportedNotes ==
    {ret.intent_analysis.reasoning, ret.vocabulary_analysis.reasoning,
     ret.spelling_analysis.reasoning, ret.grammar_analysis.reasoning}

ScoresInRange == \A d \in DimensionSet : ReportedScores[d] \in 0..100

\* C1: when the Assessor call succeeds and its text is not JSON, is an empty
\* fenced block, or is JSON that is not an object of dimension objects,
\* evaluate_answer returns a result with the four scores 50 and the note
\* "Parse error" on every dimension (stated for a max_score that is not 0).
C1_UnparsableGivesFallback ==
    (Evaluated /\ args.llm.ok /\ GivenMaxScore # 0 /\ ~IsJudgmentObject) =>
        /\ pc = "returned"
        /\ \A d \in DimensionSet : ReportedScores[d] = 50
        /\ ReportedNotes = {"Parse error"}

\* C2: with max_score > 0 and the four scores in [0,100], the result has
\* 0 <= final_score <= max_score and 0 <= percentage <= 100, whatever the
\* difficulty and the context.
C2_FinalScoreWithinMax ==
    (Returned /\ ret.max_score > 0 /\ ScoresInRange) =>
        /\ 0 <= ret.final_score
        /\ ret.final_score <= 100 * ret.max_score
        /\ 0 <= ret.percentage
        /\ ret.percentage <= 1000

\* C3: a max_score that is 0, negative or absent is treated as 1: the call
\* returns and the result's max_score is 1 (stated for replies that are a
\* whole judgment or that take the fallback).
C3_NonPositiveMaxScoreIsOne ==
    (Evaluated /\ args.llm.ok /\ (IsWholeJudgment \/ ~Loaded.ok)
       /\ (~Has(args.question_data, "max_score") \/ GivenMaxScore <= 0)) =>
        /\ pc = "returned"
        /\ ret.max_score = 1

\* C5: when the content parses as a judgment object in which a dimension or a
\* field of a dimension is absent, evaluate_answer returns a complete result
\* and the absent dimension's score is 0 (stated for a max_score that is not 0).
C5_AbsentDimensionCountsZero ==
    (Evaluated /\ args.llm.ok /\ GivenMaxScore # 0 /\ IsJudgmentObject) =>
        /\ pc = "returned"
        /\ \A d \in DimensionSet :
              (~Has(Loaded.value.v, d) \/ ~Has(Loaded.value.v[d].v, "score"))
                  => ReportedScores[d] = 0

\* C6: every per-dimension score reported in the result lies in [0,100].
C6_ReportedScoresInRange == Returned => ScoresInRange

\* C7 as stated: the returned percentage equals
\* round(100 * final_score / max_score, 1) of the returned 2-decimal
\* final_score and the returned max_score.
C7_PercentageOfReturnedFinalScore ==
    (Returned /\ ret.max_score # 0) =>
        ret.percentage \in Round(RatDiv(Rat(ret.final_score), Rat(ret.max_score)), 1)

\* The sum of score * weight over the reported scores and the weights of the
\* question: 100 times the weighted average.
ReportedWeightedSum ==
    LET w == GetWeights(Get(args.question_data, "difficulty", sMedium),
                        Get(args.question_data, "context", sEmpty))
    IN  ReportedScores["intent"] * w["intent"]
          + ReportedScores["vocabulary"] * w["vocabulary"]
          + ReportedScores["spelling"] * w["spelling"]
          + ReportedScores["grammar"] * w["grammar"]

\* C7 as amended: the returned percentage is round(100 * f / max_score, 1)
\* for the final score f before its rounding to 2 decimals, that is, the
\* weighted average rounded to 1 decimal, whatever max_score is.
C7_PercentageOfUnroundedFinalScore ==
    (Returned /\ ret.max_score # 0) =>
        /\ 10 * ret.percentage - ReportedWeightedSum <= 5
        /\ ReportedWeightedSum - 10 * ret.percentage <= 5

\* A result for max_score 1 whose percentage is not the one computed from
\* the returned final_score.
C7_Witness ==
    /\ Returned
    /\ ret.max_score = 1
    /\ ret.percentage \notin Round(RatDiv(Rat(ret.final_score), Rat(ret.max_score)), 1)

PartialSum ==
    ret.partial_scores.intent + ret.partial_scores.vocabulary
        + ret.partial_scores.spelling + ret.partial_scores.grammar

\* C8: the sum of the four partial scores differs from the returned
\* final_score by at most 0.05, for max_score > 0 and scores in [0,100].
C8_PartialSumNearFinalScore ==
    (Returned /\ ret.max_score > 0 /\ ScoresInRange) =>
        /\ PartialSum - ret.final_score <= 5
        /\ ret.final_score - PartialSum <= 5

\* A result whose partial scores do not add up to the returned final_score.
C8_Witness ==
    /\ Returned
    /\ ret.max_score > 0
    /\ ScoresInRange
    /\ PartialSum # ret.final_score

\* C10: the remarks contain "You understood the main idea." exactly when the
\* returned intent_analysis.understood_concept is true.
C10_RemarksAgreeWithUnderstood ==
    Returned =>
        ((\E i \in 1..Len(ret.remarks) : ret.remarks[i] = "You understood the main idea.")
            <=> ret.intent_analysis.understood_concept = TRUE)

\* --------------------------------------- inputs of _generate_suggestions

MissedPool == <<"evaporation", "condensation", "rain", "clouds", "rivers">>

ImprovePool == <<"say evaporate", "say vapour", "say droplets", "say cycle", "say flow">>

SpellingErrorPool ==
    <<[word |-> "becaus", correct |-> "because", type |-> "phonetic"],
      [word |-> "watter", correct |-> "water", type |-> "typo"],
      [word |-> "cloudz", correct |-> "clouds", type |-> "phonetic"],
      [word |-> "rane", correct |-> "rain", type |-> "phonetic"],
      [word |-> "sunn", correct |-> "sun", type |-> "typo"]>>

GrammarErrorPool ==
    <<[type |-> "tense", fix |-> "went"],
      [type |-> "agreement", fix |-> "they are"],
      [type |-> "article", fix |-> "the sun"],
      [type |-> "plural", fix |-> "clouds"],
      [type |-> "order", fix |-> "it rains"]>>

\* The lists of 0..MaxListLen items of a pool.
Prefixes(pool) == { Take(pool, n) : n \in 0..MaxListLen }

\* The same lists, their first item replaced by each of firsts.
PrefixesWithFirst(pool, firsts) ==
    Prefixes(pool) \cup
    { [l EXCEPT ![1] = f] : l \in Prefixes(pool) \ {<<>>}, f \in firsts }

\* A dimension dict with the list under key, or without the key.
WithOrWithout(key, lists) == { EmptyDict } \cup { [k \in {key} |-> l] : l \in lists }

SuggestionResults ==
    { [intent |-> JDict(i), vocabulary |-> JDict(v), spelling |-> JDict(sp),
       grammar |-> JDict(g)] :
        i \in WithOrWithout("concepts_missed", Prefixes(MissedPool)),
        v \in WithOrWithout("improve", Prefixes(ImprovePool)),
        sp \in WithOrWithout("errors",
                  PrefixesWithFirst(SpellingErrorPool,
                                    {[correct |-> "because"], [word |-> "becaus"]})),
        g \in WithOrWithout("errors",
                 PrefixesWithFirst(GrammarErrorPool, {[type |-> "tense"]})) }
    \cup { Without(FullJudgment, d) : d \in DimensionSet }

InitSuggestions ==
    \E r \in SuggestionResults : Called("_generate_suggestions", [result |-> r])

\* _generate_suggestions(result) runs: result[dim] raises KeyError for a
\* dimension the dict does not hold.
GenerateSuggestionsCall ==
    /\ pc = "called"
    /\ callee = "_generate_suggestions"
    /\ IF MissingDimension(args.result) THEN Raise("KeyError")
       ELSE Return(GenerateSuggestions(args.result))

NextSuggestions == GenerateSuggestionsCall

SpecSuggestions == InitSuggestions /\ [][NextSuggestions]_vars

\* ------------------------------------------------------------------ C9

\* The four source lists of the argument (empty when the key is absent).
SourceMissed == Get(args.result["intent"].v, "concepts_missed", <<>>)
SourceImprove == Get(args.result["vocabulary"].v, "improve", <<>>)
SourceSpelling == Get(args.result["spelling"].v, "errors", <<>>)
SourceGrammar == Get(args.result["grammar"].v, "errors", <<>>)

\* The fragment each source stands for (empty when the source is empty).
RefInclude ==
    IF SourceMissed = <<>> THEN <<>>
    ELSE IF Len(SourceMissed) = 1 THEN <<"Include: ", SourceMissed[1]>>
    ELSE <<"Include: ", SourceMissed[1], ", ", SourceMissed[2]>>

RefWordTip ==
    IF SourceImprove = <<>> THEN <<>> ELSE <<"Word tip: ", SourceImprove[1]>>

RefSpelling ==
    IF SourceSpelling = <<>> THEN <<>>
    ELSE <<"Spelling: '",
           IF Has(SourceSpelling[1], "word") THEN SourceSpelling[1].word ELSE "None",
           "' -> '",
           IF Has(SourceSpelling[1], "correct") THEN SourceSpelling[1].correct ELSE "None",
           "'">>

RefGrammar ==
    IF SourceGrammar = <<>> THEN <<>>
    ELSE <<"Grammar: ",
           IF Has(SourceGrammar[1], "fix") THEN SourceGrammar[1].fix
           ELSE "Check structure">>

NonEmpty(fragment) == fragment # <<>>

RefFragments == SelectSeq(<<RefInclude, RefWordTip, RefSpelling, RefGrammar>>, NonEmpty)

RefSuggestions ==
    CASE Len(RefFragments) = 0 -> <<"Keep up the good work!">>
      [] Len(RefFragments) = 1 -> RefFragments[1]
      [] Len(RefFragments) = 2 -> RefFragments[1] \o <<" | ">> \o RefFragments[2]
      [] OTHER -> RefFragments[1] \o <<" | ">> \o RefFragments[2]
                      \o <<" | ">> \o RefFragments[3]

\* C9: _generate_suggestions returns the fragments for missed concepts (at
\* most the first two), vocabulary tip, spelling and grammar ("Check
\* structure" without a fix), in that order, each only when its source list
\* is non-empty, at most the first 3 joined by " | " (so no grammar fragment
\* when all four sources are non-empty), and exactly "Keep up the good
\* work!" when all four are empty.
C9_SuggestionsMatchReference ==
    (callee = "_generate_suggestions" /\ pc = "returned") =>
        /\ ret = RefSuggestions
        /\ (SourceMissed # <<>> /\ SourceImprove # <<>> /\ SourceSpelling # <<>>
              /\ SourceGrammar # <<>>)
             => \A i \in 1..Len(ret) : ret[i] # "Grammar: "
        /\ (SourceMissed = <<>> /\ SourceImprove = <<>> /\ SourceSpelling = <<>>
              /\ SourceGrammar = <<>>)
             => ret = <<"Keep up the good work!">>

\* A returned call whose four sources are all non-empty, with three missed
\* concepts.
C9_Witness ==
    /\ callee = "_generate_suggestions"
    /\ pc = "returned"
    /\ Len(SourceMissed) = 3
    /\ SourceImprove # <<>>
    /\ SourceSpelling # <<>>
    /\ SourceGrammar # <<>>
    /\ ret = <<"Include: ", "evaporation", ", ", "condensation", " | ",
               "Word tip: ", "say evaporate", " | ",
               "Spelling: '", "becaus", "' -> '", "because", "'">>

====
